---- MODULE Spec2Model ----
(***************************************************************************)
(* Model of lenis_ukraine_inflation.py: a straight-line script that loads  *)
(* panel.csv, extracts the 'UA' column, computes descriptive and 12-month  *)
(* rolling statistics, renders a figure and exports two CSV tables.        *)
(*                                                                         *)
(* Numbers.  float64 observations are modelled by integers, derived        *)
(* statistics by exact values in lowest terms:                             *)
(*   [k |-> "rat", n, d]      the rational n/d, d > 0                       *)
(*   [k |-> "sqrt", n, d]     the square root of the rational n/d          *)
(*   [k |-> "avgsqrt", terms, cnt]  (sum of sqrt(terms[j])) / cnt          *)
(*   [k |-> "nan"]            not-a-number                                 *)
(* Floating-point rounding is not modelled.                                *)
(***************************************************************************)
EXTENDS Integers, Sequences, FiniteSets, TLC

VARIABLES
    panel_csv,               \* the input file panel.csv as found on disk
    pc,                      \* section of the script to run next, or "exited"
    df,                      \* the loaded DataFrame
    ua_ts,                   \* the extracted Series (index labels and values)
    stats,                   \* mean_value, median_value, std_value, min_value, max_value
    rolling_mean_12m,
    rolling_volatility_12m,
    files,                   \* the three output files
    stdout,                  \* lines printed so far
    exit_code,               \* process exit status, -1 while running
    error,                   \* exception that ended the run, "none" otherwise
    halted_in                \* section in which the run ended early, "none" otherwise

vars == <<panel_csv, pc, df, ua_ts, stats, rolling_mean_12m,
          rolling_volatility_12m, files, stdout, exit_code, error, halted_in>>

----------------------------------------------------------------------------
(* Bounds of the input space *)

MaxRows == 24          \* rows of panel.csv: 0..MaxRows
MaxGap == 2            \* longest run of missing entries in a column
MaxSeed == 1           \* value patterns: 0..MaxSeed

(* Program constants *)

window == 12           \* rolling(window=12)
ddof == 1              \* pandas std(): delta degrees of freedom
lags == 20             \* plot_acf(..., lags=20)
exit_status == 0       \* exit() without an argument: SystemExit(None)
error_status == 1      \* uncaught exception: traceback, status 1

----------------------------------------------------------------------------
(* Exact arithmetic *)

Abs(x) == IF x < 0 THEN -x ELSE x

Larger(a, b) == IF a >= b THEN a ELSE b

RECURSIVE GCD(_, _)
GCD(a, b) == IF b = 0 THEN a ELSE GCD(b, a % b)

NaN == [k |-> "nan"]

IsNaN(x) == x.k = "nan"

\* n/d in lowest terms, d > 0
Rat(n, d) ==
    LET g == GCD(Abs(n), d)
    IN  [k |-> "rat", n |-> n \div g, d |-> d \div g]

Sqrt(q) == [k |-> "sqrt", n |-> q.n, d |-> q.d]

RatAdd(a, b) == Rat(a.n * b.d + b.n * a.d, a.d * b.d)

RatSub(a, b) == Rat(a.n * b.d - b.n * a.d, a.d * b.d)

RECURSIVE Sum(_)
Sum(s) == IF s = <<>> THEN 0 ELSE Head(s) + Sum(Tail(s))

RECURSIVE RatSum(_)
RatSum(s) == IF s = <<>> THEN Rat(0, 1) ELSE RatAdd(Head(s), RatSum(Tail(s)))

Squares(s, c, m) == [i \in 1..Len(s) |-> (c * s[i] - m) * (c * s[i] - m)]

----------------------------------------------------------------------------
(* Input files *)

Value(seed, i) == ((seed * i * i + 3 * i + seed) % 7) - 2

Cell(v) == Rat(v, 1)

\* a column of n rows whose rows first..first+gap-1 are missing
ColumnOf(n, first, gap, seed) ==
    [i \in 1..n |-> IF i >= first /\ i < first + gap THEN NaN
                    ELSE Cell(Value(seed, i))]

Columns ==
    UNION {{ColumnOf(n, f, g, s) : f \in 1..Larger(1, n - g + 1), s \in 0..MaxSeed}
           : <<n, g>> \in {t \in (0..MaxRows) \X (0..MaxGap) : t[2] <= t[1]}}

ColumnLists == {<<"PL", "UA">>, <<"PL", "ZZ">>}

Names(cols) == {cols[i] : i \in 1..Len(cols)}

\* read_csv gives every table the default RangeIndex 0..n-1
Table(cols, col) ==
    [k |-> "table", columns |-> cols, index |-> [i \in 1..Len(col) |-> i - 1],
     data |-> [c \in Names(cols) |-> col]]

InputFiles ==
    {[k |-> "missing"], [k |-> "malformed"]}
    \cup {Table(cols, col) : cols \in ColumnLists, col \in Columns}

----------------------------------------------------------------------------
(* pandas primitives used by the script *)

Unset == [k |-> "unset"]

\* mutant: fillna(0) in place of dropna(), every row is kept
RECURSIVE dropna_fill(_, _)
dropna_fill(index, column) ==
    IF column = <<>> THEN [k |-> "series", index |-> <<>>, values |-> <<>>]
    ELSE LET rest == dropna_fill(Tail(index), Tail(column))
         IN  [k |-> "series",
              index |-> <<Head(index)>> \o rest.index,
              values |-> <<IF IsNaN(Head(column)) THEN 0 ELSE Head(column).n>>
                         \o rest.values]

\* mutant: dropna().reset_index(drop=True), labels renumbered 0..n-1
RECURSIVE dropna_reset(_, _)
dropna_reset(index, column) ==
    IF column = <<>> THEN [k |-> "series", index |-> <<>>, values |-> <<>>]
    ELSE LET rest == dropna_reset(SubSeq(index, 1, Len(index) - 1),
                                  SubSeq(column, 1, Len(column) - 1))
             last == column[Len(column)]
         IN  IF IsNaN(last) THEN rest
             ELSE [k |-> "series",
                   index |-> rest.index \o <<Len(rest.index)>>,
                   values |-> rest.values \o <<last.n>>]

\* Series.dropna(): the rows whose value is not missing, labels kept
RECURSIVE dropna(_, _)
dropna(index, column) ==
    IF column = <<>> THEN [k |-> "series", index |-> <<>>, values |-> <<>>]
    ELSE LET rest == dropna(Tail(index), Tail(column))
         IN  IF IsNaN(Head(column)) THEN rest
             ELSE [k |-> "series",
                   index |-> <<Head(index)>> \o rest.index,
                   values |-> <<Head(column).n>> \o rest.values]

\* Series.mean()
mean(values) ==
    IF Len(values) = 0 THEN NaN ELSE Rat(Sum(values), Len(values))

\* Series.std(): sample standard deviation, NaN when n - ddof <= 0
std(values) ==
    LET n == Len(values)
    IN  IF n - ddof <= 0 THEN NaN
        ELSE Sqrt(Rat(Sum(Squares(values, n, Sum(values))), n * n * (n - ddof)))

KthSmallest(values, j) ==
    CHOOSE v \in {values[i] : i \in 1..Len(values)} :
        /\ Cardinality({i \in 1..Len(values) : values[i] < v}) < j
        /\ Cardinality({i \in 1..Len(values) : values[i] <= v}) >= j

\* Series.median()
median(values) ==
    LET n == Len(values)
    IN  IF n = 0 THEN NaN
        ELSE IF n % 2 = 1 THEN Rat(KthSmallest(values, (n + 1) \div 2), 1)
        ELSE Rat(KthSmallest(values, n \div 2) + KthSmallest(values, n \div 2 + 1), 2)

\* Series.min()
min(values) ==
    IF Len(values) = 0 THEN NaN
    ELSE Rat(CHOOSE v \in {values[i] : i \in 1..Len(values)} :
                 \A i \in 1..Len(values) : v <= values[i], 1)

\* Series.max()
max(values) ==
    IF Len(values) = 0 THEN NaN
    ELSE Rat(CHOOSE v \in {values[i] : i \in 1..Len(values)} :
                 \A i \in 1..Len(values) : v >= values[i], 1)

\* max_value - min_value
range(hi, lo) == IF IsNaN(hi) \/ IsNaN(lo) THEN NaN ELSE RatSub(hi, lo)

\* rolling(window=12): min_periods defaults to the window size
min_periods == window

Window(values, i) == SubSeq(values, Larger(1, i - window + 1), i)

\* mutant: min_periods=1, a partial window yields a value
rolling_mean_partial(values) ==
    [i \in 1..Len(values) |-> mean(Window(values, i))]

\* Series.rolling(window=12).mean()
rolling_mean(values) ==
    [i \in 1..Len(values) |->
        IF Len(Window(values, i)) < min_periods THEN NaN
        ELSE mean(Window(values, i))]

\* Series.rolling(window=12).std()
rolling_std(values) ==
    [i \in 1..Len(values) |->
        IF Len(Window(values, i)) < min_periods THEN NaN
        ELSE std(Window(values, i))]

IsDefined(x) == ~IsNaN(x)

Radicand(x) == Rat(x.n, x.d)

\* mutant: missing entries counted as zero (fillna(0).mean())
nanmean_zero(s) ==
    LET defined == SelectSeq(s, IsDefined)
    IN  IF defined = <<>> THEN NaN
        ELSE IF defined[1].k = "sqrt"
             THEN [k |-> "avgsqrt",
                   terms |-> [j \in 1..Len(defined) |-> Radicand(defined[j])],
                   cnt |-> Len(s)]
             ELSE LET t == RatSum(defined)
                  IN  Rat(t.n, t.d * Len(s))

\* Series.mean() of a rolling series: missing entries are skipped (skipna)
nanmean(s) ==
    LET defined == SelectSeq(s, IsDefined)
    IN  IF defined = <<>> THEN NaN
        ELSE IF defined[1].k = "sqrt"
             THEN [k |-> "avgsqrt",
                   terms |-> [j \in 1..Len(defined) |-> Radicand(defined[j])],
                   cnt |-> Len(defined)]
             ELSE LET t == RatSum(defined)
                  IN  Rat(t.n, t.d * Len(defined))

\* DataFrame.to_csv(): na_rep='' writes a missing value as an empty field
NA_REP == [k |-> "empty"]

\* mutant: na_rep='0', a missing value is written as zero
to_csv_field_zero(x) == IF IsNaN(x) THEN Rat(0, 1) ELSE x

to_csv_field(x) == IF IsNaN(x) THEN NA_REP ELSE x

\* plot_acf draws lags 0..lags against the autocorrelations, of which a
\* series of n observations has only min(n, lags + 1): the length mismatch
\* raises (ValueError; IndexError for n = 1), modelled as "PlotAcfError"
plot_acf_raises(values) == Len(values) <= lags

----------------------------------------------------------------------------
(* The script, section by section *)

Line(text) == [line |-> text, cols |-> <<>>, n |-> 0]

ListLine(text, cols) == [line |-> text, cols |-> cols, n |-> 0]

CountLine(text, n) == [line |-> text, cols |-> <<>>, n |-> n]

Absent == [k |-> "absent"]

\* mutant: the export sections moved ahead of the figure
Successor_export_first(section) ==
    CASE section = "section1" -> "section2"
      [] section = "section2" -> "section3"
      [] section = "section3" -> "section4"
      [] section = "section4" -> "section6_summary"
      [] section = "section6_summary" -> "section6_timeseries"
      [] section = "section6_timeseries" -> "section5"
      [] section = "section5" -> "exited"

\* program order of the sections
Successor(section) ==
    CASE section = "section1" -> "section2"
      [] section = "section2" -> "section3"
      [] section = "section3" -> "section4"
      [] section = "section4" -> "section5"
      [] section = "section5" -> "section6_summary"
      [] section = "section6_summary" -> "section6_timeseries"
      [] section = "section6_timeseries" -> "exited"

\* mutant: a failed write is swallowed (try/except OSError: pass)
Raise_swallow_write(kind, section, printed) ==
    /\ pc' = IF kind = "OSError" THEN Successor(section) ELSE "exited"
    /\ exit_code' = error_status
    /\ error' = kind
    /\ halted_in' = section
    /\ stdout' = stdout \o printed

\* an uncaught exception: traceback, the interpreter exits with status 1
Raise(kind, section, printed) ==
    /\ pc' = "exited"
    /\ exit_code' = error_status
    /\ error' = kind
    /\ halted_in' = section
    /\ stdout' = stdout \o printed

Init ==
    /\ panel_csv \in InputFiles
    /\ pc = "section1"
    /\ df = Unset
    /\ ua_ts = Unset
    /\ stats = Unset
    /\ rolling_mean_12m = Unset
    /\ rolling_volatility_12m = Unset
    /\ files = [png |-> Absent, summary |-> Absent, timeseries |-> Absent]
    /\ stdout = <<>>
    /\ exit_code = -1
    /\ error = "none"
    /\ halted_in = "none"

\* SECTION 1: df = pd.read_csv('panel.csv')
Section1 ==
    /\ pc = "section1"
    /\ IF panel_csv.k = "missing"
       THEN /\ Raise("FileNotFoundError", "section1", <<Line("SECTION 1")>>)
            /\ UNCHANGED df
       ELSE IF panel_csv.k = "malformed"
       THEN /\ Raise("ParserError", "section1", <<Line("SECTION 1")>>)
            /\ UNCHANGED df
       ELSE /\ df' = panel_csv
            /\ stdout' = stdout \o <<Line("SECTION 1"),
                                     CountLine("Data loaded", Len(panel_csv.index)),
                                     ListLine("Columns", panel_csv.columns)>>
            /\ pc' = Successor("section1")
            /\ UNCHANGED <<exit_code, error, halted_in>>
    /\ UNCHANGED <<panel_csv, ua_ts, stats, rolling_mean_12m,
                   rolling_volatility_12m, files>>

\* mutant: the else branch falls through with an empty series, no exit()
Section2_no_exit ==
    /\ pc = "section2"
    /\ ua_ts' = IF "UA" \in Names(df.columns)
                THEN dropna(df.index, df.data["UA"])
                ELSE [k |-> "series", index |-> <<>>, values |-> <<>>]
    /\ stdout' = stdout \o <<Line("SECTION 2")>>
    /\ pc' = Successor("section2")
    /\ UNCHANGED <<panel_csv, df, stats, rolling_mean_12m, rolling_volatility_12m,
                   files, exit_code, error, halted_in>>

\* SECTION 2: if 'UA' in df.columns: ua_ts = df['UA'].dropna() else: exit()
Section2 ==
    /\ pc = "section2"
    /\ IF "UA" \in Names(df.columns)
       THEN /\ ua_ts' = dropna(df.index, df.data["UA"])
            /\ stdout' = stdout \o <<Line("SECTION 2"),
                                     Line("Ukraine column 'UA' found"),
                                     CountLine("Number of observations", Len(ua_ts'.values))>>
            /\ pc' = Successor("section2")
            /\ UNCHANGED <<exit_code, error, halted_in>>
       ELSE /\ stdout' = stdout \o <<Line("SECTION 2"),
                                     Line("Warning: 'UA' column not found. Available columns:"),
                                     ListLine("", df.columns)>>
            /\ pc' = "exited"
            /\ exit_code' = exit_status
            /\ error' = "SystemExit"
            /\ halted_in' = "section2"
            /\ UNCHANGED ua_ts
    /\ UNCHANGED <<panel_csv, df, stats, rolling_mean_12m,
                   rolling_volatility_12m, files>>

\* SECTION 3: descriptive statistics
Section3 ==
    /\ pc = "section3"
    /\ stats' = [k |-> "stats",
                 mean_value |-> mean(ua_ts.values),
                 median_value |-> median(ua_ts.values),
                 std_value |-> std(ua_ts.values),
                 min_value |-> min(ua_ts.values),
                 max_value |-> max(ua_ts.values)]
    /\ stdout' = stdout \o <<Line("SECTION 3"), Line("statistics")>>
    /\ pc' = Successor("section3")
    /\ UNCHANGED <<panel_csv, df, ua_ts, rolling_mean_12m, rolling_volatility_12m,
                   files, exit_code, error, halted_in>>

\* SECTION 4: rolling statistics
Section4 ==
    /\ pc = "section4"
    /\ rolling_mean_12m' = [k |-> "series", index |-> ua_ts.index,
                             values |-> rolling_mean(ua_ts.values)]
    /\ rolling_volatility_12m' = [k |-> "series", index |-> ua_ts.index,
                                   values |-> rolling_std(ua_ts.values)]
    /\ stdout' = stdout \o <<Line("SECTION 4"), Line("rolling statistics")>>
    /\ pc' = Successor("section4")
    /\ UNCHANGED <<panel_csv, df, ua_ts, stats, files, exit_code, error, halted_in>>

\* SECTION 5: the figure; plot_acf, then savefig writes the image
Section5 ==
    /\ pc = "section5"
    /\ IF plot_acf_raises(ua_ts.values)
       THEN /\ Raise("PlotAcfError", "section5", <<Line("SECTION 5")>>)
            /\ UNCHANGED files
       ELSE \E writable \in BOOLEAN :
            IF writable
            THEN /\ files' = [files EXCEPT !.png = [k |-> "png", x |-> ua_ts.index]]
                 /\ stdout' = stdout \o <<Line("SECTION 5"), Line("Visualization saved")>>
                 /\ pc' = Successor("section5")
                 /\ UNCHANGED <<exit_code, error, halted_in>>
            ELSE /\ Raise("OSError", "section5", <<Line("SECTION 5")>>)
                 /\ UNCHANGED files
    /\ UNCHANGED <<panel_csv, df, ua_ts, stats, rolling_mean_12m,
                   rolling_volatility_12m>>

summary_labels ==
    <<"Mean", "Median", "Std Dev", "Min", "Max", "Range",
      "Avg Rolling Mean (12m)", "Avg Rolling Vol (12m)", "Observations">>

summary_values ==
    <<stats.mean_value, stats.median_value, stats.std_value, stats.min_value,
      stats.max_value, range(stats.max_value, stats.min_value),
      nanmean(rolling_mean_12m.values), nanmean(rolling_volatility_12m.values),
      Rat(Len(ua_ts.values), 1)>>

\* summary_df.to_csv('ukraine_inflation_summary.csv', index=False)
summary_csv ==
    [k |-> "csv", header |-> <<"Statistic", "Value">>,
     rows |-> [i \in 1..Len(summary_labels) |->
                  <<summary_labels[i], to_csv_field(summary_values[i])>>]]

\* export_df.to_csv('ukraine_inflation_timeseries.csv', index=False)
timeseries_csv ==
    [k |-> "csv",
     header |-> <<"Inflation", "Rolling_Mean_12m", "Rolling_Volatility_12m">>,
     rows |-> [i \in 1..Len(ua_ts.values) |->
                  <<to_csv_field(Rat(ua_ts.values[i], 1)),
                    to_csv_field(rolling_mean_12m.values[i]),
                    to_csv_field(rolling_volatility_12m.values[i])>>]]

\* SECTION 6, first half: the summary table
Section6Summary ==
    /\ pc = "section6_summary"
    /\ \E writable \in BOOLEAN :
         IF writable
         THEN /\ files' = [files EXCEPT !.summary = summary_csv]
              /\ stdout' = stdout \o <<Line("SECTION 6"), Line("Summary statistics exported")>>
              /\ pc' = Successor("section6_summary")
              /\ UNCHANGED <<exit_code, error, halted_in>>
         ELSE /\ Raise("OSError", "section6_summary", <<Line("SECTION 6")>>)
              /\ UNCHANGED files
    /\ UNCHANGED <<panel_csv, df, ua_ts, stats, rolling_mean_12m,
                   rolling_volatility_12m>>

\* SECTION 6, second half: the time-series table, then normal termination
Section6Timeseries ==
    /\ pc = "section6_timeseries"
    /\ \E writable \in BOOLEAN :
         IF writable
         THEN /\ files' = [files EXCEPT !.timeseries = timeseries_csv]
              /\ stdout' = stdout \o <<Line("Time series data exported"),
                                       Line("Script execution completed successfully!")>>
              /\ pc' = Successor("section6_timeseries")
              /\ exit_code' = exit_status
              /\ UNCHANGED <<error, halted_in>>
         ELSE /\ Raise("OSError", "section6_timeseries", <<>>)
              /\ UNCHANGED files
    /\ UNCHANGED <<panel_csv, df, ua_ts, stats, rolling_mean_12m,
                   rolling_volatility_12m>>

Next ==
    \/ Section1
    \/ Section2
    \/ Section3
    \/ Section4
    \/ Section5
    \/ Section6Summary
    \/ Section6Timeseries

Spec == Init /\ [][Next]_vars

----------------------------------------------------------------------------
(* Direct windowed recomputation, used to state the claims *)

SumSq(s) == Sum([j \in 1..Len(s) |-> s[j] * s[j]])

DirectMean(S, i) == Rat(Sum(SubSeq(S, i - window + 1, i)), window)

DirectStd(S, i) ==
    LET win == SubSeq(S, i - window + 1, i)
    IN  Sqrt(Rat(window * SumSq(win) - Sum(win) * Sum(win), window * (window - 1)))

RollingComputed == rolling_mean_12m.k = "series" /\ rolling_volatility_12m.k = "series"

\* C1: for a series of n >= window observations both rolling sequences have
\* n positions, are undefined at the first window-1 positions, and from
\* position window-1 on equal the arithmetic mean and the sample standard
\* deviation (denominator window-1) of the window values ending there.
C1_RollingMatchesDirect ==
    (RollingComputed /\ Len(ua_ts.values) >= window) =>
        LET S == ua_ts.values
            n == Len(S)
        IN  /\ Len(rolling_mean_12m.values) = n
            /\ Len(rolling_volatility_12m.values) = n
            /\ \A i \in 1..n :
                 IF i < window
                 THEN /\ IsNaN(rolling_mean_12m.values[i])
                      /\ IsNaN(rolling_volatility_12m.values[i])
                 ELSE /\ rolling_mean_12m.values[i] = DirectMean(S, i)
                      /\ rolling_volatility_12m.values[i] = DirectStd(S, i)

C1_Witness ==
    /\ RollingComputed
    /\ Len(ua_ts.values) > window
    /\ IsNaN(rolling_mean_12m.values[window - 1])
    /\ rolling_mean_12m.values[window].k = "rat"
    /\ rolling_mean_12m.values[window] # rolling_mean_12m.values[window + 1]
    /\ rolling_volatility_12m.values[window + 1].k = "sqrt"
    /\ rolling_volatility_12m.values[window + 1].n > 0

----------------------------------------------------------------------------
NoOutput ==
    /\ files.png = Absent
    /\ files.summary = Absent
    /\ files.timeseries = Absent

HasLine(l) == \E j \in 1..Len(stdout) : stdout[j] = l

\* C2: when the loaded table has no 'UA' column the run halts in the
\* extraction section: no series, no descriptive or rolling statistic is
\* computed and none of the three output files is written.
C2_MissingColumnHalts ==
    (df.k = "table" /\ "UA" \notin Names(df.columns) /\ pc # "section2") =>
        /\ pc = "exited"
        /\ halted_in = "section2"
        /\ ua_ts = Unset
        /\ stats = Unset
        /\ rolling_mean_12m = Unset
        /\ rolling_volatility_12m = Unset
        /\ NoOutput

C2_Witness ==
    /\ df.k = "table"
    /\ "UA" \notin Names(df.columns)
    /\ Len(df.index) > lags
    /\ pc = "exited"

DiagnosticListsColumns ==
    \E j \in 1..Len(stdout) - 1 :
        /\ stdout[j] = Line("Warning: 'UA' column not found. Available columns:")
        /\ stdout[j + 1] = ListLine("", df.columns)

\* C3: when the target column is missing, the run prints a diagnostic that
\* lists the available column identifiers and then terminates with a
\* non-zero outcome.
C3_MissingColumnNonZeroExit ==
    (pc = "exited" /\ halted_in = "section2") =>
        /\ DiagnosticListsColumns
        /\ exit_code # 0

----------------------------------------------------------------------------
Written(f) == f.k # "absent"

\* the SECTION banners printed so far, in print order
Banners == SelectSeq(stdout, LAMBDA l : l.line \in
               {"SECTION 1", "SECTION 2", "SECTION 3", "SECTION 4", "SECTION 5", "SECTION 6"})

SectionOrder ==
    <<Line("SECTION 1"), Line("SECTION 2"), Line("SECTION 3"),
      Line("SECTION 4"), Line("SECTION 5"), Line("SECTION 6")>>

\* C4 as stated: export precedes the figure, so whenever the image exists
\* both tables exist, and a run that fails in the figure section has
\* already written both tables.
C4_ExportBeforeVisualize ==
    /\ Written(files.png) => (Written(files.summary) /\ Written(files.timeseries))
    /\ halted_in = "section5" => (Written(files.summary) /\ Written(files.timeseries))

\* C4 (amended): the sections run in the order load, extract, compute,
\* visualize, export, each completing before the next begins; the image is
\* saved before either table is written, the summary table before the
\* time-series table, and a failure in the figure section leaves no table.
C4_VisualizeBeforeExport ==
    /\ Banners = SubSeq(SectionOrder, 1, Len(Banners))
    /\ ua_ts.k = "series" => df.k = "table"
    /\ stats.k = "stats" => ua_ts.k = "series"
    /\ RollingComputed => stats.k = "stats"
    /\ Written(files.png) => RollingComputed
    /\ Written(files.summary) => Written(files.png)
    /\ Written(files.timeseries) => Written(files.summary)
    /\ halted_in = "section5" => NoOutput

C4_Witness ==
    /\ pc = "exited"
    /\ error = "none"
    /\ Written(files.png)
    /\ Written(files.summary)
    /\ Written(files.timeseries)
    /\ Len(Banners) = Len(SectionOrder)

\* C5 as stated: a run that ends in failure has written none of the
\* output files.
C5_FailureLeavesNoFile ==
    (pc = "exited" /\ error # "none") => NoOutput

\* C5 (amended): a failing section ends the run at once (no later section
\* runs, nothing more is written); the files of the sections completed
\* before it remain: none after a failure in load, extraction or the
\* figure, the image after a failed summary write, the image and the
\* summary table after a failed time-series write.
C5_FailureKeepsEarlierFiles ==
    (error # "none") =>
        /\ pc = "exited"
        /\ ~ENABLED Next
        /\ halted_in \in {"section1", "section2", "section5"} => NoOutput
        /\ halted_in = "section6_summary" =>
              /\ Written(files.png)
              /\ ~Written(files.summary)
              /\ ~Written(files.timeseries)
        /\ halted_in = "section6_timeseries" =>
              /\ Written(files.png)
              /\ Written(files.summary)
              /\ ~Written(files.timeseries)

C5_Witness ==
    /\ pc = "exited"
    /\ error = "OSError"
    /\ halted_in = "section6_timeseries"
    /\ Written(files.summary)

----------------------------------------------------------------------------
(* The column as loaded, used to state the extraction claims *)

NonMissing(col) == {i \in 1..Len(col) : ~IsNaN(col[i])}

\* number of non-missing entries in rows 1..i of the column
Rank(col) == [i \in 0..Len(col) |-> Cardinality({h \in NonMissing(col) : h <= i})]

\* sum of the window most recent non-missing entries in rows 1..i
RecentSum(col, rk, i) ==
    Sum([h \in 1..i |-> IF ~IsNaN(col[h]) /\ rk[h] > rk[i] - window
                        THEN col[h].n ELSE 0])

Extracted == ua_ts.k = "series"

\* C6: the extracted Series holds exactly the non-missing entries of the
\* column in their original order, its length is their number, and the
\* observation count printed and the 'Observations' row exported equal it.
C6_DropsMissingKeepsOrder ==
    Extracted =>
        LET col == df.data["UA"]
            rk == Rank(col)
            n == Len(ua_ts.values)
        IN  /\ n = Cardinality(NonMissing(col))
            /\ \A i \in NonMissing(col) : ua_ts.values[rk[i]] = col[i].n
            /\ HasLine(CountLine("Number of observations", n))
            /\ Written(files.summary) =>
                  files.summary.rows[Len(summary_labels)] = <<"Observations", Rat(n, 1)>>

C6_Witness ==
    /\ Extracted
    /\ Written(files.summary)
    /\ Len(df.data["UA"]) = MaxRows
    /\ IsNaN(df.data["UA"][1])
    /\ Len(ua_ts.values) = MaxRows - 1

WindowIsPositional ==
    LET col == df.data["UA"]
        rk == Rank(col)
    IN  \A i \in NonMissing(col) :
            rk[i] >= window =>
                rolling_mean_12m.values[rk[i]] = Rat(RecentSum(col, rk, i), window)

\* C7 as stated: the extracted Series is re-indexed 0..n-1 and the rolling
\* window at position i covers the window most recent retained observations.
C7_ContiguousIndex ==
    Extracted =>
        /\ \A j \in 1..Len(ua_ts.index) : ua_ts.index[j] = j - 1
        /\ RollingComputed => WindowIsPositional

\* C7 (amended): the extracted Series keeps the row labels of the retained
\* entries (a removed missing value leaves a hole in the index, which the
\* figure plots), and the rolling window at position i still covers the
\* window most recent retained observations, wherever the hole is.
C7_LabelsKeptWindowPositional ==
    Extracted =>
        LET col == df.data["UA"]
            rk == Rank(col)
        IN  /\ Len(ua_ts.index) = Len(ua_ts.values)
            /\ \A i \in NonMissing(col) : ua_ts.index[rk[i]] = df.index[i]
            /\ Written(files.png) => files.png.x = ua_ts.index
            /\ RollingComputed =>
                  /\ rolling_mean_12m.index = ua_ts.index
                  /\ WindowIsPositional

C7_Witness ==
    /\ Extracted
    /\ RollingComputed
    /\ Written(files.png)
    /\ Len(ua_ts.values) > lags
    /\ \E j \in window..Len(ua_ts.index) : ua_ts.index[j] # ua_ts.index[j - 1] + 1

\* C8: the time-series table has the columns Inflation, Rolling_Mean_12m,
\* Rolling_Volatility_12m and one row per retained observation in order;
\* rows whose rolling entry is undefined carry the empty (not available)
\* field, never zero, and the other rows carry the rolling values.
C8_TimeseriesTable ==
    Written(files.timeseries) =>
        LET t == files.timeseries
            S == ua_ts.values
        IN  /\ t.header = <<"Inflation", "Rolling_Mean_12m", "Rolling_Volatility_12m">>
            /\ Len(t.rows) = Len(S)
            /\ \A i \in 1..Len(S) :
                 /\ t.rows[i][1] = Rat(S[i], 1)
                 /\ IF i < window
                    THEN /\ t.rows[i][2] = NA_REP
                         /\ t.rows[i][3] = NA_REP
                    ELSE /\ t.rows[i][2] = DirectMean(S, i)
                         /\ t.rows[i][3] = DirectStd(S, i)

C8_Witness ==
    /\ Written(files.timeseries)
    /\ Len(files.timeseries.rows) > lags
    /\ files.timeseries.rows[window - 1][2] = NA_REP
    /\ files.timeseries.rows[window][2].k = "rat"
    /\ files.timeseries.rows[window][3].k = "sqrt"

DefinedCount == Len(ua_ts.values) - window + 1

RollingAverages ==
    /\ files.summary.rows[7][2] =
          LET t == RatSum([j \in 1..DefinedCount |->
                              DirectMean(ua_ts.values, j + window - 1)])
          IN  Rat(t.n, t.d * DefinedCount)
    /\ files.summary.rows[8][2].k = "avgsqrt"
    /\ files.summary.rows[8][2].cnt = DefinedCount
    /\ files.summary.rows[8][2].terms =
          [j \in 1..DefinedCount |-> Radicand(DirectStd(ua_ts.values, j + window - 1))]

\* C9 as stated: nine rows labelled Mean, Median, Std Dev, Min, Max, Range,
\* Avg Rolling Mean, Avg Rolling Vol, Observations; the two averages are
\* taken over the defined rolling entries only.
C9_SummaryLabels ==
    Written(files.summary) =>
        /\ [i \in 1..Len(files.summary.rows) |-> files.summary.rows[i][1]] =
              <<"Mean", "Median", "Std Dev", "Min", "Max", "Range",
                "Avg Rolling Mean", "Avg Rolling Vol", "Observations">>
        /\ RollingAverages

\* C9 (amended): nine rows labelled Mean, Median, Std Dev, Min, Max, Range,
\* Avg Rolling Mean (12m), Avg Rolling Vol (12m), Observations; the two
\* averages are taken over the defined rolling entries only.
C9_SummaryLabels12m ==
    Written(files.summary) =>
        /\ files.summary.header = <<"Statistic", "Value">>
        /\ [i \in 1..Len(files.summary.rows) |-> files.summary.rows[i][1]] =
              <<"Mean", "Median", "Std Dev", "Min", "Max", "Range",
                "Avg Rolling Mean (12m)", "Avg Rolling Vol (12m)", "Observations">>
        /\ RollingAverages

C9_Witness ==
    /\ Written(files.summary)
    /\ DefinedCount > 1
    /\ DefinedCount < Len(ua_ts.values)
    /\ files.summary.rows[7][2].k = "rat"

SingleObservation == Extracted /\ Len(ua_ts.values) = 1

\* C10: for a Series of length 1 the standard deviation is not-a-number,
\* the run still completes, and the 'Std Dev' row of the exported summary
\* table carries the undefined value (a write failure aside).
C10_SingleObservationCompletes ==
    (SingleObservation /\ pc = "exited" /\ error # "OSError") =>
        /\ IsNaN(stats.std_value)
        /\ error = "none"
        /\ Written(files.summary)
        /\ files.summary.rows[3] = <<"Std Dev", NA_REP>>

====
